---- MODULE Spec2Model ----
(***************************************************************************)
(* Model of the serverless request handlers of micro-learning-app-v4:      *)
(* the /api/getRecommendations variants, /api/llm and                      *)
(* /api/perplexity/links.  One behaviour is one inbound request: the       *)
(* handler runs from its entry to the response, suspending at each await.  *)
(* Spec is the handlers; NormSpec gives one provider text to one           *)
(* normalizer; VerifySpec follows verifyUrl step by step (timer, fetch,    *)
(* body) and VerifyFairSpec adds that a due timer fires.                   *)
(***************************************************************************)
EXTENDS Integers, Sequences, FiniteSets, TLC

(***************************************************************************)
(* Bounds                                                                  *)
(***************************************************************************)
\* longest candidate list a provider text carries
MaxCands ==
  3

(***************************************************************************)
(* Program constants                                                       *)
(***************************************************************************)
desiredCount ==
  2

DefaultMaxResults ==
  6

TopN ==
  2

(***************************************************************************)
(* Values                                                                  *)
(***************************************************************************)
\* JavaScript undefined, for a field that is not there
Absent ==
  "<undefined>"

Providers ==
  {"OpenAI", "Perplexity", "Gemini"}

\* the handler variants of the repository
VerifyingHandlers ==
  {"geminiVerify", "geminiHead", "pplxVerify", "pplxSchema"}

WebUrl ==
  "https://example.org/a"

YtUrl ==
  "https://www.youtube.com/watch?v=1"

EmptyUrl ==
  ""

\* an entry of the array the model lists: its url and its platform
Entry(u, p) ==
  [url |-> u, platform |-> p]

Entries ==
  {Entry(Absent, ""), Entry(EmptyUrl, "web"), Entry(WebUrl, "web"),
   Entry(YtUrl, "youtube")}

SeqsUpTo(S, n) ==
  UNION {[1..k -> S] : k \in 0..n}

EntryLists ==
  SeqsUpTo(Entries, MaxCands)

(***************************************************************************)
(* Provider text.  The text the model produced is a sequence of tokens:    *)
(* an opening fence ```json, a closing fence ```, white space, a word of   *)
(* prose, a bare URL with the non-blank characters written right after it  *)
(* (tail), or one complete JSON document.                                  *)
(***************************************************************************)
\* parsed JSON: an array of entries, an object (with or without a
\* recommendations array), or null
JsonArray(es) ==
  [kind |-> "array", elems |-> es]

JsonObject(es) ==
  [kind |-> "object", hasRecs |-> TRUE, elems |-> es]

JsonObjectNoRecs ==
  [kind |-> "object", hasRecs |-> FALSE, elems |-> <<>>]

JsonNull ==
  [kind |-> "null", elems |-> <<>>]

FenceOpen ==
  [t |-> "fenceOpen"]

FenceClose ==
  [t |-> "fenceClose"]

Ws ==
  [t |-> "ws"]

Word ==
  [t |-> "word"]

JsonTok(v) ==
  [t |-> "json", v |-> v]

UrlTok(u, tail) ==
  [t |-> "url", u |-> u, tail |-> tail]

\* characters a model writes right after a URL in prose
Tails ==
  {"", ".", ")"}

\* what follows a url string inside a JSON document written one key per
\* line: the closing quote and the comma
JsonTail ==
  "\","

\* String.prototype.trim
RECURSIVE TrimLeft(_)
TrimLeft(s) ==
  IF s # <<>> /\ Head(s).t = "ws" THEN TrimLeft(Tail(s)) ELSE s

RECURSIVE TrimRight(_)
TrimRight(s) ==
  IF s # <<>> /\ s[Len(s)].t = "ws"
    THEN TrimRight(SubSeq(s, 1, Len(s) - 1))
    ELSE s

Trim(s) ==
  TrimRight(TrimLeft(s))

\* s.replace(/^```json\s*|\s*```$/g, '')
StripFences(s) ==
  LET a == IF s # <<>> /\ Head(s).t = "fenceOpen"
             THEN TrimLeft(Tail(s)) ELSE s
  IN  IF a # <<>> /\ a[Len(a)].t = "fenceClose"
        THEN TrimRight(SubSeq(a, 1, Len(a) - 1))
        ELSE a

\* JSON.parse: the text must be exactly one JSON document, white space
\* around it allowed; anything else is a SyntaxError (ok = FALSE)
JSONparse(s) ==
  LET c == Trim(s)
  IN  IF Len(c) = 1 /\ c[1].t = "json"
        THEN [ok |-> TRUE, v |-> c[1].v]
        ELSE [ok |-> FALSE, v |-> JsonNull]

\* Array.prototype.slice(0, n)
Slice(s, n) ==
  SubSeq(s, 1, IF Len(s) < n THEN Len(s) ELSE n)

\* an item of the links task
Item(u, p, r) ==
  [url |-> u, platform |-> p, reason |-> r]

\* url.includes("youtube.com") || url.includes("youtu.be")
IsYouTube(u) ==
  u \in {YtUrl \o t : t \in Tails \cup {JsonTail}}

\* /^https?:\/\// .test(url)
IsAbsoluteHttp(u) ==
  u \in {b \o t : b \in {WebUrl, YtUrl}, t \in Tails \cup {JsonTail}}

\* typeof it.url === 'string'
IsStringUrl(e) ==
  e.url # Absent

\* api/llm.js tryParseJson: null unless the cleaned text is a JSON array
tryParseJson(s) ==
  LET j == JSONparse(StripFences(Trim(s)))
  IN  IF j.ok /\ j.v.kind = "array"
        THEN [isNull |-> FALSE,
              items |-> [i \in DOMAIN SelectSeq(j.v.elems, IsStringUrl) |->
                           LET it == SelectSeq(j.v.elems, IsStringUrl)[i]
                           IN  Item(it.url, it.platform, Absent)]]
        ELSE [isNull |-> TRUE, items |-> <<>>]

\* the matches of /https?:\/\/\S+/g in the text, in order of appearance
RECURSIVE EntryUrlMatches(_)
EntryUrlMatches(es) ==
  IF es = <<>> THEN <<>>
  ELSE (IF Head(es).url \in {WebUrl, YtUrl}
          THEN <<Head(es).url \o JsonTail>> ELSE <<>>)
       \o EntryUrlMatches(Tail(es))

RECURSIVE UrlMatches(_)
UrlMatches(s) ==
  IF s = <<>> THEN <<>>
  ELSE (CASE Head(s).t = "url" -> <<Head(s).u \o Head(s).tail>>
          [] Head(s).t = "json" -> EntryUrlMatches(Head(s).v.elems)
          [] OTHER -> <<>>)
       \o UrlMatches(Tail(s))

\* api/llm.js extractUrlsFallback
extractUrlsFallback(s, max) ==
  LET urls == Slice(UrlMatches(s), max)
  IN  [i \in DOMAIN urls |->
         Item(urls[i], IF IsYouTube(urls[i]) THEN "youtube" ELSE "web",
              "fallback")]

\* api/perplexity/links.js safeJsonParse
safeJsonParse(text) ==
  LET j == JSONparse(StripFences(Trim(text)))
  IN  IF j.ok THEN [isNull |-> j.v.kind = "null", v |-> j.v]
      ELSE [isNull |-> TRUE, v |-> JsonNull]


(***************************************************************************)
(* What the outside world can send: provider texts, provider replies,      *)
(* fetch outcomes of a link verification, request bodies.                  *)
(***************************************************************************)
\* most bare URLs in a prose answer
MaxUrls ==
  2

\* longest list written inside code fences or after a word of prose
MaxWrapped ==
  2

\* most verifyUrl calls of one loop followed step by step
MaxVerifs ==
  2

BareUrls ==
  {UrlTok(u, t) : u \in {WebUrl, YtUrl}, t \in Tails}

RECURSIVE Prose(_)
Prose(us) ==
  IF us = <<>> THEN <<Word>>
  ELSE <<Word, Ws, Head(us), Ws>> \o Prose(Tail(us))

\* code fences and a leading word are put around the shorter lists
WrappedLists ==
  SeqsUpTo(Entries, MaxWrapped)

RawTexts ==
  {<<JsonTok(JsonObject(l))>> : l \in EntryLists}
  \cup {<<JsonTok(JsonArray(l))>> : l \in EntryLists}
  \cup {<<FenceOpen, Ws, JsonTok(JsonObject(l)), Ws, FenceClose>> :
          l \in WrappedLists}
  \cup {<<FenceOpen, Ws, JsonTok(JsonArray(l)), Ws, FenceClose>> :
          l \in WrappedLists}
  \cup {<<Word, Ws, JsonTok(JsonArray(l))>> : l \in WrappedLists}
  \cup {Prose(us) : us \in SeqsUpTo(BareUrls, MaxUrls)}
  \cup {<<JsonTok(JsonObjectNoRecs)>>, <<JsonTok(JsonNull)>>, <<>>}

\* the answer of a provider to the one chat/generate call:
\*   net     "error" when fetch rejects (no response at all)
\*   status  the HTTP status of the response
\*   json    the body is JSON (r.json() does not throw)
\*   content the envelope has choices[0].message.content /
\*           candidates[0].content.parts[0].text
\*   text    that content
Reply(net, status, json, content, text) ==
  [net |-> net, status |-> status, json |-> json, content |-> content,
   text |-> text]

\* no response, an error status, a body that is not JSON, no content
FailedReplies ==
  {Reply("error", 0, FALSE, FALSE, <<>>)}
  \cup {Reply("ok", st, TRUE, FALSE, <<>>) : st \in {401, 429, 200}}
  \cup {Reply("ok", 502, FALSE, FALSE, <<>>)}

ProviderReplies ==
  FailedReplies
  \cup {Reply("ok", 200, TRUE, TRUE, t) : t \in RawTexts}

\* the replies given to the handlers that hand the text through unread:
\* the text is empty, prose, or a list of at most one entry
PassthroughReplies ==
  FailedReplies
  \cup {Reply("ok", 200, TRUE, TRUE, t) :
          t \in {<<>>, <<Word>>, <<JsonTok(JsonObject(<<>>))>>}
                \cup {<<JsonTok(JsonObject(<<e>>))>> : e \in Entries}}

\* response.ok
IsOk(status) ==
  status >= 200 /\ status <= 299

\* the outcome of the fetch made by verifyUrl:
\*   net     "error" when the fetch rejects (network error, abort)
\*   status  final status after redirects
\*   body    FALSE when reading the body fails
\*   marker  the body holds one of the "unavailable" phrases
Outcome(net, status, body, marker) ==
  [net |-> net, status |-> status, body |-> body, marker |-> marker]

FetchOutcomes ==
  {Outcome("error", 0, FALSE, FALSE), Outcome("ok", 404, TRUE, FALSE),
   Outcome("ok", 200, TRUE, FALSE), Outcome("ok", 200, TRUE, TRUE),
   Outcome("ok", 200, FALSE, FALSE)}

\* a numeric field that is not there
AbsentNum ==
  -1

Body(present, subject, learningFormat, model, provider, task, query, maxResults) ==
  [present |-> present, subject |-> subject,
   learningFormat |-> learningFormat, model |-> model,
   provider |-> provider, task |-> task, query |-> query,
   maxResults |-> maxResults]

\* req.body undefined (no JSON body was sent)
NoBody ==
  Body(FALSE, Absent, Absent, Absent, Absent, Absent, Absent, AbsentNum)

\* req.body = {}
EmptyBody ==
  Body(TRUE, Absent, Absent, Absent, Absent, Absent, Absent, AbsentNum)

Subjects ==
  {Absent, "Photosynthesis"}

Formats ==
  {"Video", "video", "Text"}

Methods ==
  {"POST", "GET"}

\* the envelope shape the extraction reads for a model name:
\* data.choices[0].message.content for OpenAI and Perplexity, the
\* candidates envelope otherwise
EnvelopeRead(model) ==
  IF model \in {"OpenAI", "Perplexity"} THEN "choices" ELSE "candidates"

\* names every object literal answers to besides its own properties
InheritedNames ==
  {"constructor"}

\* bodies sent to the handlers that read subject only
VerifyingBodies ==
  {NoBody} \cup
  {Body(TRUE, s, Absent, Absent, Absent, Absent, Absent, AbsentNum) :
     s \in Subjects}

\* bodies sent to the handlers that read subject, learningFormat, model
ModelBodies ==
  {NoBody, EmptyBody} \cup
  {Body(TRUE, s, f, m, Absent, Absent, Absent, AbsentNum) :
     s \in Subjects, f \in Formats,
     m \in Providers \cup {Absent} \cup InheritedNames}

\* bodies sent to the unified handler
UnifiedBodies ==
  {NoBody} \cup
  {Body(TRUE, s, f, Absent, p, Absent, Absent, n) :
     s \in Subjects, f \in {"Video", "Text"},
     p \in {Absent, "perplexity", "Gemini", "openai", "claude"},
     n \in {AbsentNum, 1}}

\* bodies sent to /api/llm
LlmBodies ==
  {NoBody} \cup
  {Body(TRUE, Absent, Absent, Absent, p, t, q, n) :
     p \in {Absent, "perplexity", "Gemini", "openai", "claude"},
     t \in {Absent, "links", "summary", "quiz"},
     q \in {Absent, "photosynthesis"}, n \in {AbsentNum, 1, 2}}

\* bodies sent to /api/perplexity/links
LinksBodies ==
  {NoBody} \cup
  {Body(TRUE, Absent, Absent, Absent, Absent, Absent, q, n) :
     q \in {Absent, "photosynthesis"}, n \in {AbsentNum, 1, 2}}


(***************************************************************************)
(* State                                                                   *)
(***************************************************************************)
VARIABLES
  keys,        \* providers whose API key is set in process.env
  handler,     \* the handler variant serving the request
  req,         \* the request: method and body
  pc,          \* where the handler is: idle, an await, done, crashed
  activeModel, \* the provider the handler resolved
  calls,       \* outbound fetches started, in order
  candidates,  \* candidateRecommendations
  idx,         \* index of the candidate whose verification is awaited
  verified,    \* verifiedRecommendations
  vlog,        \* verifications finished: candidate index and result
  res,         \* responses written to res, in order
  apiResponse, \* the answer the awaited call got, and how it was read
  nin,         \* a normalizer taken alone: which one, its text, maxResults
  nout,        \* what that normalizer returned
  vh,          \* a verifyUrl call taken alone: the handler variant it is of
  vurl,        \* its url argument
  vpc,         \* where the call is: idle, awaitFetch, awaitBody, returned
  timer,       \* timeoutId: unset, armed, cleared, fired
  vobs,        \* what the call has seen of the response so far
  vret,        \* the value the call returned
  vn,          \* verifyUrl calls finished by the loop so far
  pending      \* timers of finished calls that are still armed

handlerVars ==
  <<keys, handler, req, pc, activeModel, calls, candidates, idx, verified,
    vlog, res, apiResponse>>

normVars ==
  <<nin, nout>>

verifyVars ==
  <<vh, vurl, vpc, timer, vobs, vret, vn, pending>>

vars ==
  <<handlerVars, normVars, verifyVars>>

\* one outbound fetch: the provider (or "llm", "verify"), whether a
\* credential went with it, the url verified, and whether the fetch was
\* given an abort signal tied to a timer (only those of verifyUrl are)
Call(to, key, url) ==
  [to |-> to, key |-> key, url |-> url, signal |-> to = "verify"]

\* res.status(status).json(...): the error string, or the payload
Resp(status, error, shape, items, text) ==
  [status |-> status, error |-> error, shape |-> shape, items |-> items,
   text |-> text]

ErrorResp(status, error) ==
  Resp(status, error, "error", <<>>, <<>>)

MsgMethod ==
  "Method Not Allowed"

MsgSubject ==
  "Missing \"subject\" in request body."

MsgQuery ==
  "Missing query"

MsgNoKey ==
  "API key is not configured on the server."

MsgConfig ==
  "Configuration Error"

MsgNoneVerified ==
  "The AI generated links, but none could be verified as active websites. Please try again."

MsgNoneVerifiedSchema ==
  "The AI generated links, but none could be verified as active. Please try again."

MsgNoRecs ==
  "The AI model did not return any recommendations."

MsgProviderFailed ==
  "API request failed with status"

MsgTypeError ==
  "TypeError: Cannot read properties of undefined"

MsgReferenceError ==
  "ReferenceError: apiResponse is not defined"

\* apiResponse.json() on a body that is not JSON
MsgBodyNotJson ==
  "SyntaxError: response body is not valid JSON"

\* JSON.parse(jsonText) on model text that is not JSON
MsgTextNotJson ==
  "SyntaxError: model text is not valid JSON"

MsgFetchFailed ==
  "TypeError: fetch failed"

MsgProxyFailed ==
  "Proxy execution failed"

MsgServerError ==
  "Server error"

MsgLlmFailed ==
  "LLM endpoint failed"

MsgPerplexityError ==
  "Perplexity error"

MsgUnsupportedTask ==
  "Unsupported task"

\* what a verifyUrl call has seen: the method of its fetch, how the fetch
\* settled (none, ok, error, abort), the final status, whether the body
\* was read (no, yes, failed) and the phrases found in the page
Seen(method, net, status, read, page) ==
  [method |-> method, net |-> net, status |-> status, read |-> read,
   page |-> page]

NothingSeen(method) ==
  Seen(method, "none", 0, "no", {})

\* the answer to the awaited provider (or /api/llm) call: how the call
\* settled, its status, whether the body was JSON and held content, the
\* items of an /api/llm answer, and the envelope shape the handler read
\* the content from (none when it never got that far)
ApiResponse(net, status, json, content, items, readAs) ==
  [net |-> net, status |-> status, json |-> json, content |-> content,
   items |-> items, readAs |-> readAs]

NoResponse ==
  ApiResponse("none", 0, FALSE, FALSE, <<>>, "none")

\* what the handler saw of a provider reply r
SeenReply(r, readAs) ==
  ApiResponse(r.net, r.status, r.json, r.content, <<>>, readAs)

\* no request has come in
HandlerIdle ==
  /\ handler = "none"
  /\ req = [method |-> "none", body |-> NoBody]
  /\ pc = "idle"
  /\ activeModel = Absent
  /\ calls = <<>>
  /\ candidates = <<>>
  /\ idx = 0
  /\ verified = <<>>
  /\ vlog = <<>>
  /\ res = <<>>
  /\ apiResponse = NoResponse

\* no normalizer is being looked at alone
NormIdle ==
  /\ nin = [who |-> "none", text |-> <<>>, maxResults |-> 0]
  /\ nout = [done |-> FALSE, threw |-> FALSE, fallback |-> FALSE,
             items |-> <<>>]

\* no verifyUrl call is being looked at alone
VerifyIdle ==
  /\ vh = "none"
  /\ vurl = Absent
  /\ vpc = "idle"
  /\ timer = "unset"
  /\ vobs = NothingSeen("none")
  /\ vret = "none"
  /\ vn = 0
  /\ pending = 0

Init ==
  /\ keys \in SUBSET Providers
  /\ HandlerIdle
  /\ NormIdle
  /\ VerifyIdle

\* the method check letting GET through
MethodAllowedAlsoGet(m) ==
  m \in {"POST", "GET"}

\* req.method !== 'POST' is answered with 405
MethodAllowed(m) ==
  m = "POST"

\* the response written without the return: the handler goes on
FinishKeepsRunning(r) ==
  /\ res' = Append(res, r)
  /\ pc' = pc

\* the handler returning without having written the response
FinishSilently(r) ==
  /\ res' = res
  /\ pc' = "done"

\* the handler returns after res.status(..).json(..)
Finish(r) ==
  /\ res' = Append(res, r)
  /\ pc' = "done"

(***************************************************************************)
(* Link verification and the selection loop of the verifying handlers      *)
(***************************************************************************)
\* verifyUrl of api/getRecommendations.js: HEAD for ordinary urls, GET and
\* a scan of the body for YouTube urls (only in the variant that has the
\* YouTube branch); every failure is caught and gives false
verifyUrl(h, url, o) ==
  IF h = "geminiVerify" /\ IsYouTube(url)
    THEN /\ o.net = "ok"
         /\ IsOk(o.status)
         /\ o.body
         /\ ~o.marker
    ELSE o.net = "ok" /\ IsOk(o.status)

\* if (rec.url)
Truthy(u) ==
  u \notin {Absent, EmptyUrl}

\* the next candidate, from index i on, that the loop verifies; 0 if none
NextWithUrl(cands, i) ==
  IF \E k \in i..Len(cands) : Truthy(cands[k].url)
    THEN CHOOSE k \in i..Len(cands) :
           /\ Truthy(cands[k].url)
           /\ \A j \in i..(k - 1) : ~Truthy(cands[j].url)
    ELSE 0

\* the 200 envelope around the verified recommendations
FinalResponse(recs) ==
  Resp(200, "", "envelope", recs, <<JsonTok(JsonObject(recs))>>)

\* the loop result without the check for an empty verified list
LoopResultUnchecked(h, ver) ==
  FinalResponse(ver)

\* after the loop: an error when nothing was verified, else the envelope
LoopResult(h, ver) ==
  IF ver = <<>>
    THEN ErrorResp(500, IF h = "pplxSchema"
                          THEN MsgNoneVerifiedSchema ELSE MsgNoneVerified)
    ELSE FinalResponse(ver)

\* the break test written with > in place of >=
LoopBreaksLate(ver) ==
  Len(ver) > desiredCount

\* if (verifiedRecommendations.length >= desiredCount) break
LoopBreaks(ver) ==
  Len(ver) >= desiredCount

\* the loop from candidate i on, up to its next await or to the response
ContinueLoop(cands, i, ver) ==
  LET k == NextWithUrl(cands, i)
  IN  IF k # 0
        THEN /\ pc' = "awaitVerify"
             /\ idx' = k
             /\ calls' = Append(calls, Call("verify", FALSE, cands[k].url))
             /\ UNCHANGED res
        ELSE /\ idx' = 0
             /\ UNCHANGED calls
             /\ Finish(LoopResult(handler, ver))

\* await verifyUrl(rec.url) returns
VerifyReply(o) ==
  /\ pc = "awaitVerify"
  /\ UNCHANGED <<normVars, verifyVars>>
  /\ LET ok == verifyUrl(handler, candidates[idx].url, o)
         ver == IF ok THEN Append(verified, candidates[idx]) ELSE verified
     IN  /\ vlog' = Append(vlog, [i |-> idx, ok |-> ok])
         /\ verified' = ver
         /\ IF ok /\ LoopBreaks(ver)
              THEN /\ Finish(LoopResult(handler, ver))
                   /\ idx' = 0
                   /\ UNCHANGED calls
              ELSE ContinueLoop(candidates, idx + 1, ver)
  /\ UNCHANGED <<keys, handler, req, activeModel, candidates, apiResponse>>

(***************************************************************************)
(* The verifying handlers: Gemini (with and without the YouTube branch of  *)
(* verifyUrl), Perplexity, Perplexity with a json_schema payload           *)
(***************************************************************************)
KeyOfHandler(h) ==
  IF h \in {"geminiVerify", "geminiHead"} THEN "Gemini" ELSE "Perplexity"

ReceiveVerifying(h, m, b) ==
  /\ pc = "idle"
  /\ h \in VerifyingHandlers
  /\ UNCHANGED <<normVars, verifyVars>>
  /\ handler' = h
  /\ req' = [method |-> m, body |-> b]
  /\ UNCHANGED <<keys, candidates, idx, verified, vlog, apiResponse>>
  /\ IF ~MethodAllowed(m)
       THEN /\ Finish(ErrorResp(405, MsgMethod))
            /\ UNCHANGED <<activeModel, calls>>
     ELSE IF KeyOfHandler(h) \notin keys
       THEN /\ Finish(ErrorResp(500, MsgNoKey))
            /\ activeModel' = KeyOfHandler(h)
            /\ UNCHANGED calls
     ELSE IF ~b.present
       THEN /\ Finish(ErrorResp(500, MsgTypeError))
            /\ activeModel' = KeyOfHandler(h)
            /\ UNCHANGED calls
     ELSE IF h = "pplxSchema"
       THEN /\ Finish(ErrorResp(500, MsgReferenceError))
            /\ activeModel' = KeyOfHandler(h)
            /\ UNCHANGED calls
     ELSE /\ activeModel' = KeyOfHandler(h)
          /\ calls' = Append(calls, Call(KeyOfHandler(h), TRUE, ""))
          /\ pc' = "awaitProvider"
          /\ UNCHANGED res

\* parsedData.recommendations || [] ; parsing null then reading a field
\* of it is a TypeError
ParsedRecommendations(v) ==
  IF v.kind = "object" /\ v.hasRecs THEN v.elems ELSE <<>>

ProviderReplyVerifying(r) ==
  /\ pc = "awaitProvider"
  /\ handler \in VerifyingHandlers
  /\ UNCHANGED <<normVars, verifyVars>>
  /\ UNCHANGED <<keys, handler, req, activeModel, vlog, verified>>
  /\ apiResponse' = SeenReply(r, IF r.net = "ok" /\ IsOk(r.status) /\ r.json
                                   THEN EnvelopeRead(KeyOfHandler(handler))
                                   ELSE "none")
  /\ IF r.net # "ok"
       THEN /\ Finish(ErrorResp(500, MsgFetchFailed))
            /\ UNCHANGED <<calls, candidates, idx>>
     ELSE IF ~IsOk(r.status)
       THEN /\ Finish(ErrorResp(500, MsgProviderFailed))
            /\ UNCHANGED <<calls, candidates, idx>>
     ELSE IF ~r.json
       THEN /\ Finish(ErrorResp(500, MsgBodyNotJson))
            /\ UNCHANGED <<calls, candidates, idx>>
     ELSE IF ~r.content
       THEN /\ Finish(ErrorResp(500, MsgNoRecs))
            /\ UNCHANGED <<calls, candidates, idx>>
     ELSE IF ~JSONparse(r.text).ok
       THEN /\ Finish(ErrorResp(500, MsgTextNotJson))
            /\ UNCHANGED <<calls, candidates, idx>>
     ELSE IF JSONparse(r.text).v.kind = "null"
       THEN /\ Finish(ErrorResp(500, MsgTypeError))
            /\ UNCHANGED <<calls, candidates, idx>>
     ELSE LET cands == ParsedRecommendations(JSONparse(r.text).v)
          IN  /\ candidates' = cands
              /\ ContinueLoop(cands, 1, <<>>)

(***************************************************************************)
(* The multi-provider handlers: module.exports with the credential check   *)
(* and the video override ("multi"), and the earlier one without ("simple")*)
(***************************************************************************)
\* let activeModel = model; if (learningFormat === 'Video') 'Perplexity'
ActiveModel(model, learningFormat) ==
  IF learningFormat = "Video" THEN "Perplexity" ELSE model

\* the branch of the provider dispatch: OpenAI, Perplexity, else Gemini
Dispatch(model) ==
  IF model \in {"OpenAI", "Perplexity"} THEN model ELSE "Gemini"

\* keys[activeModel] is truthy: the key of that provider is set, or the
\* name is one the keys object inherits from Object.prototype
KeyTruthy(name) ==
  name \in keys \/ name \in InheritedNames

\* the provider's envelope handed through as it came
Passthrough(r) ==
  Resp(200, "", "envelope", <<>>, IF r.content THEN r.text ELSE <<>>)

\* { candidates: [{ content: { parts: [{ text }] } }] }
Envelope(text) ==
  Resp(200, "", "envelope", <<>>, text)

ReceiveMulti(m, b) ==
  /\ pc = "idle"
  /\ UNCHANGED <<normVars, verifyVars>>
  /\ handler' = "multi"
  /\ req' = [method |-> m, body |-> b]
  /\ UNCHANGED <<keys, candidates, idx, verified, vlog, apiResponse>>
  /\ IF ~MethodAllowed(m)
       THEN /\ Finish(ErrorResp(405, MsgMethod))
            /\ UNCHANGED <<activeModel, calls>>
     ELSE IF ~b.present
       THEN \* destructuring req.body outside the try block throws
            /\ pc' = "crashed"
            /\ UNCHANGED <<activeModel, calls, res>>
     ELSE LET am == ActiveModel(b.model, b.learningFormat)
          IN  /\ activeModel' = am
              /\ IF ~KeyTruthy(am)
                   THEN /\ Finish(ErrorResp(500, MsgConfig))
                        /\ UNCHANGED calls
                   ELSE /\ calls' = Append(calls,
                                           Call(Dispatch(am),
                                                Dispatch(am) \in keys, ""))
                        /\ pc' = "awaitProvider"
                        /\ UNCHANGED res

ProviderReplyMulti(r) ==
  /\ pc = "awaitProvider"
  /\ handler = "multi"
  /\ UNCHANGED <<normVars, verifyVars>>
  /\ UNCHANGED <<keys, handler, req, activeModel, calls, candidates, idx,
                 verified, vlog>>
  /\ apiResponse' = SeenReply(r, IF r.net = "ok" /\ IsOk(r.status)
                                   THEN EnvelopeRead(activeModel)
                                   ELSE "none")
  /\ IF r.net # "ok" \/ ~IsOk(r.status)
       THEN \* axios rejects on a network error and on a non-2xx status
            Finish(ErrorResp(500, MsgProxyFailed))
     ELSE IF activeModel \in {"OpenAI", "Perplexity"}
       THEN IF ~r.json \/ ~r.content \/ r.text = <<>>
              THEN Finish(ErrorResp(500, MsgProxyFailed))
              ELSE Finish(Envelope(r.text))
     ELSE Finish(Passthrough(r))

ReceiveSimple(m, b) ==
  /\ pc = "idle"
  /\ UNCHANGED <<normVars, verifyVars>>
  /\ handler' = "simple"
  /\ req' = [method |-> m, body |-> b]
  /\ UNCHANGED <<keys, candidates, idx, verified, vlog, apiResponse>>
  /\ IF ~MethodAllowed(m)
       THEN /\ Finish(ErrorResp(405, MsgMethod))
            /\ UNCHANGED <<activeModel, calls>>
     ELSE IF ~b.present
       THEN /\ pc' = "crashed"
            /\ UNCHANGED <<activeModel, calls, res>>
     ELSE /\ activeModel' = Dispatch(b.model)
          /\ calls' = Append(calls, Call(Dispatch(b.model),
                                         Dispatch(b.model) \in keys, ""))
          /\ pc' = "awaitProvider"
          /\ UNCHANGED res

ProviderReplySimple(r) ==
  /\ pc = "awaitProvider"
  /\ handler = "simple"
  /\ UNCHANGED <<normVars, verifyVars>>
  /\ UNCHANGED <<keys, handler, req, activeModel, calls, candidates, idx,
                 verified, vlog>>
  /\ apiResponse' = SeenReply(r, IF r.net = "ok" /\ r.json
                                   THEN EnvelopeRead(req.body.model)
                                   ELSE "none")
  /\ IF r.net # "ok"
       THEN Finish(ErrorResp(500, MsgFetchFailed))
     ELSE IF ~r.json
       THEN Finish(ErrorResp(500, MsgBodyNotJson))
     ELSE IF activeModel \in {"OpenAI", "Perplexity"}
       THEN IF ~r.content
              THEN Finish(ErrorResp(500, MsgTypeError))
              ELSE Finish(Envelope(r.text))
     ELSE Finish(Passthrough(r))

(***************************************************************************)
(* /api/llm (api/llm.js) and /api/perplexity/links                         *)
(***************************************************************************)
\* String.prototype.toLowerCase on the provider names
ToLower(p) ==
  CASE p = "Perplexity" -> "perplexity"
    [] p = "Gemini" -> "gemini"
    [] p = "OpenAI" -> "openai"
    [] OTHER -> p

\* the provider a lower-case provider name stands for
Canon(p) ==
  CASE ToLower(p) = "perplexity" -> "Perplexity"
    [] ToLower(p) = "gemini" -> "Gemini"
    [] ToLower(p) = "openai" -> "OpenAI"
    [] OTHER -> p

\* the platform score of the sort, times ten
score(it) ==
  CASE it.platform = "youtube" -> 20
    [] it.platform = "tiktok" -> 15
    [] OTHER -> 10

\* items.sort((a, b) => score(b) - score(a)): stable, highest score first
SortByScore(items) ==
  SelectSeq(items, LAMBDA it : score(it) = 20)
  \o SelectSeq(items, LAMBDA it : score(it) = 15)
  \o SelectSeq(items, LAMBDA it : score(it) = 10)

\* content || '[]'
ContentOrEmptyArray(r) ==
  IF r.json /\ r.content /\ r.text # <<>>
    THEN r.text ELSE <<JsonTok(JsonArray(<<>>))>>

\* tryParseJson(content) || extractUrlsFallback(content, maxResults)
ParseOrFallback(content, maxResults) ==
  IF tryParseJson(content).isNull
    THEN extractUrlsFallback(content, maxResults)
    ELSE tryParseJson(content).items

\* perplexityLinks / openaiLinks / geminiLinks after the provider answered
LinksItems(provider, r, maxResults) ==
  LET items == ParseOrFallback(ContentOrEmptyArray(r), maxResults)
  IN  IF ToLower(provider) = "perplexity"
        THEN Slice(SortByScore(items), maxResults)
        ELSE items

\* { provider = 'perplexity', task = 'links', query, maxResults = 6 }
OrDefault(v, d) ==
  IF v = Absent THEN d ELSE v

NumOrDefault(n, d) ==
  IF n = AbsentNum THEN d ELSE n

\* the response of /api/llm once the provider has answered
LlmResult(provider, task, maxResults, r) ==
  IF r.net # "ok" THEN ErrorResp(500, MsgServerError)
  ELSE IF ~r.json THEN ErrorResp(500, MsgServerError)
  ELSE IF task = "links"
    THEN Resp(200, "", "items", LinksItems(provider, r, maxResults), <<>>)
    ELSE Resp(200, "", "text", <<>>, IF r.content THEN r.text ELSE <<>>)

ReceiveLlm(m, b) ==
  /\ pc = "idle"
  /\ UNCHANGED <<normVars, verifyVars>>
  /\ handler' = "llm"
  /\ req' = [method |-> m, body |-> b]
  /\ UNCHANGED <<keys, candidates, idx, verified, vlog, apiResponse>>
  /\ LET provider == OrDefault(b.provider, "perplexity")
         task == OrDefault(b.task, "links")
     IN  IF ~MethodAllowed(m)
           THEN /\ Finish(ErrorResp(405, MsgMethod))
                /\ UNCHANGED <<activeModel, calls>>
         ELSE IF b.query = Absent
           THEN /\ Finish(ErrorResp(400, MsgQuery))
                /\ UNCHANGED <<activeModel, calls>>
         ELSE IF task \notin {"links", "summary"}
           THEN /\ Finish(ErrorResp(400, MsgUnsupportedTask))
                /\ UNCHANGED <<activeModel, calls>>
         ELSE IF ToLower(provider) \notin {"perplexity", "openai", "gemini"}
           THEN \* Unknown provider
                /\ Finish(ErrorResp(500, MsgServerError))
                /\ UNCHANGED <<activeModel, calls>>
         ELSE IF Canon(provider) \notin keys
           THEN /\ Finish(ErrorResp(500, MsgServerError))
                /\ activeModel' = provider
                /\ UNCHANGED calls
         ELSE /\ activeModel' = provider
              /\ calls' = Append(calls, Call(Canon(provider), TRUE, ""))
              /\ pc' = "awaitProvider"
              /\ UNCHANGED res

ProviderReplyLlm(r) ==
  /\ pc = "awaitProvider"
  /\ handler = "llm"
  /\ UNCHANGED <<normVars, verifyVars>>
  /\ UNCHANGED <<keys, handler, req, activeModel, calls, candidates, idx,
                 verified, vlog>>
  /\ apiResponse' = SeenReply(r, IF r.net = "ok" /\ r.json
                                   THEN EnvelopeRead(Canon(activeModel))
                                   ELSE "none")
  /\ Finish(LlmResult(activeModel, OrDefault(req.body.task, "links"),
                      NumOrDefault(req.body.maxResults, DefaultMaxResults),
                      r))

\* json.map(...).filter(it => /^https?:\/\//.test(it.url))
LinksNorm(elems) ==
  SelectSeq([i \in DOMAIN elems |->
               Item(IF Truthy(elems[i].url) THEN elems[i].url ELSE EmptyUrl,
                    elems[i].platform, "")],
            LAMBDA it : IsAbsoluteHttp(it.url))

\* the fallback branch of /api/perplexity/links
LinksFallback(content, maxResults) ==
  LET urls == Slice(UrlMatches(content), maxResults)
  IN  [i \in DOMAIN urls |->
         Item(urls[i], IF IsYouTube(urls[i]) THEN "youtube" ELSE "web",
              "extracted from model text (fallback)")]

\* if (!json || !Array.isArray(json))
LinksTakesFallback(content) ==
  safeJsonParse(content).isNull \/ safeJsonParse(content).v.kind # "array"

\* norm, norm.sort(...), norm.slice(0, maxResults)
LinksParsed(content, maxResults) ==
  Slice(SortByScore(LinksNorm(safeJsonParse(content).v.elems)), maxResults)

ReceiveLinks(m, b) ==
  /\ pc = "idle"
  /\ UNCHANGED <<normVars, verifyVars>>
  /\ handler' = "links"
  /\ req' = [method |-> m, body |-> b]
  /\ UNCHANGED <<keys, candidates, idx, verified, vlog, apiResponse>>
  /\ IF ~MethodAllowed(m)
       THEN /\ Finish(ErrorResp(405, MsgMethod))
            /\ UNCHANGED <<activeModel, calls>>
     ELSE IF b.query = Absent
       THEN /\ Finish(ErrorResp(400, MsgQuery))
            /\ UNCHANGED <<activeModel, calls>>
     ELSE IF "Perplexity" \notin keys
       THEN /\ Finish(ErrorResp(500, MsgNoKey))
            /\ activeModel' = "Perplexity"
            /\ UNCHANGED calls
     ELSE /\ activeModel' = "Perplexity"
          /\ calls' = Append(calls, Call("Perplexity", TRUE, ""))
          /\ pc' = "awaitProvider"
          /\ UNCHANGED res

ProviderReplyLinks(r) ==
  /\ pc = "awaitProvider"
  /\ handler = "links"
  /\ UNCHANGED <<normVars, verifyVars>>
  /\ UNCHANGED <<keys, handler, req, activeModel, calls, candidates, idx,
                 verified, vlog>>
  /\ apiResponse' = SeenReply(r, IF r.net = "ok" /\ IsOk(r.status) /\ r.json
                                   THEN "choices" ELSE "none")
  /\ LET maxResults == NumOrDefault(req.body.maxResults, DefaultMaxResults)
         content == IF r.content THEN r.text ELSE <<>>
     IN  IF r.net # "ok"
           THEN Finish(ErrorResp(500, MsgServerError))
         ELSE IF ~IsOk(r.status)
           THEN Finish(ErrorResp(r.status, MsgPerplexityError))
         ELSE IF ~r.json
           THEN Finish(ErrorResp(500, MsgServerError))
         ELSE IF LinksTakesFallback(content)
           THEN Finish(Resp(200, "", "items",
                            LinksFallback(content, maxResults), content))
         ELSE Finish(Resp(200, "", "items",
                          LinksParsed(content, maxResults), <<>>))

(***************************************************************************)
(* The unified getRecommendations handler, which calls /api/llm            *)
(***************************************************************************)
coalesceProvider(b) ==
  LET p == ToLower(IF b.present /\ b.provider # Absent
                     THEN b.provider ELSE "")
  IN  IF p \in {"perplexity", "gemini", "openai"} THEN p ELSE "perplexity"

\* Math.max(2, Math.min(maxResults, 12))
ClampMaxResults(n) ==
  LET lo == IF n < 12 THEN n ELSE 12
  IN  IF lo > 2 THEN lo ELSE 2

\* the last two items taken in place of the first two
lastTwo(items) ==
  LET n == Len(items)
      from == IF n > TopN THEN n - TopN ELSE 0
  IN  [i \in 1..(n - from) |->
         Entry(items[from + i].url, items[from + i].platform)]

\* items.slice(0, 2).map(...): topic and description are synthesized, the
\* url is the item's
top2(items) ==
  [i \in DOMAIN Slice(items, TopN) |->
     Entry(items[i].url, items[i].platform)]

ReceiveUnified(m, b) ==
  /\ pc = "idle"
  /\ UNCHANGED <<normVars, verifyVars>>
  /\ handler' = "unified"
  /\ req' = [method |-> m, body |-> b]
  /\ UNCHANGED <<keys, candidates, idx, verified, vlog, apiResponse>>
  /\ IF ~MethodAllowed(m)
       THEN /\ Finish(ErrorResp(405, MsgMethod))
            /\ UNCHANGED <<activeModel, calls>>
     ELSE IF ~b.present \/ b.subject = Absent
       THEN /\ Finish(ErrorResp(400, MsgSubject))
            /\ UNCHANGED <<activeModel, calls>>
     ELSE /\ activeModel' = coalesceProvider(b)
          /\ calls' = Append(calls, Call("llm", FALSE, ""))
          /\ pc' = "awaitLlm"
          /\ UNCHANGED res

\* /api/llm serves the links task for the chosen provider (calling the
\* provider when its key is set) and the unified handler maps its answer
LlmReplyUnified(transport, r) ==
  /\ pc = "awaitLlm"
  /\ handler = "unified"
  /\ UNCHANGED <<normVars, verifyVars>>
  /\ UNCHANGED <<keys, handler, req, activeModel, candidates, idx, verified,
                 vlog>>
  /\ LET called == transport = "ok" /\ Canon(activeModel) \in keys
         maxResults == ClampMaxResults(
                         NumOrDefault(req.body.maxResults, DefaultMaxResults))
         llmResp == IF called
                      THEN LlmResult(activeModel, "links", maxResults, r)
                      ELSE ErrorResp(500, MsgServerError)
     IN  /\ calls' = IF called
                       THEN Append(calls, Call(Canon(activeModel), TRUE, ""))
                       ELSE calls
         /\ apiResponse' = ApiResponse(transport, llmResp.status, TRUE, TRUE,
                                       llmResp.items, "items")
         /\ IF transport # "ok"
              THEN Finish(ErrorResp(500, MsgFetchFailed))
            ELSE IF ~IsOk(llmResp.status)
              THEN Finish(ErrorResp(500, MsgLlmFailed))
            ELSE IF llmResp.items = <<>>
              THEN Finish(Resp(200, "", "recommendations", <<>>, <<>>))
            ELSE Finish(Resp(200, "", "recommendations",
                             top2(llmResp.items), <<>>))

(***************************************************************************)
(* verifyUrl taken alone, step by step: the timer, the fetch, the body of  *)
(* the YouTube branch, and the loop calling it for one url after another   *)
(***************************************************************************)
\* a url field that is not a string (a number in the model's JSON)
NotAString ==
  "<number>"

IsString(u) ==
  u # NotAString

VerifyUrls ==
  {WebUrl, YtUrl, NotAString}

\* final statuses after redirects
Statuses ==
  {200, 404}

\* the phrases verifyUrl looks for in the page
MarkerPhrases ==
  {"Video unavailable", "This video is private", "This video is unlisted",
   "This video has been removed"}

\* pages, each the set of phrases that occur in it
PageTexts ==
  {{"Photosynthesis"}, {"Video unavailable"}, {"This video is private"},
   {"This video is unlisted"}, {"This video has been removed"},
   {"video unavailable"}}

\* only the title phrase is looked for
IsUnavailableTitleOnly(pageText) ==
  "Video unavailable" \in pageText

\* pageText.includes(...) || ... of the four phrases
IsUnavailable(pageText) ==
  \E phrase \in MarkerPhrases : phrase \in pageText

\* the variant of verifyUrl that has the YouTube branch
HasYouTubeBranch(h) ==
  h = "geminiVerify"

\* the try block ending before the body is read
CaughtUntilResponse(where) ==
  where \in {"includes", "fetch"}

\* try { ... } catch (error) { return false } spans the whole function
Caught(where) ==
  where \in {"includes", "fetch", "text"}

\* the fetch made without signal: controller.signal
AbortEndsNothing(p) ==
  FALSE

\* signal: controller.signal: what controller.abort() ends
AbortEnds(p) ==
  p \in {"awaitFetch", "awaitBody"}

\* return value
Return(b) ==
  /\ vpc' = "returned"
  /\ vret' = IF b THEN "true" ELSE "false"

\* an exception raised at `where`: caught gives false, else it escapes
Raise(where) ==
  IF Caught(where)
    THEN Return(FALSE)
    ELSE /\ vpc' = "threw"
         /\ vret' = "none"

\* the loop calls verifyUrl(rec.url): controller, setTimeout, fetch
VerifyStart(h, u) ==
  /\ vpc = "idle"
  /\ vn < MaxVerifs
  /\ IF vn = 0 THEN h \in VerifyingHandlers ELSE h = vh
  /\ vh' = h
  /\ vurl' = u
  /\ timer' = "armed"
  /\ IF HasYouTubeBranch(h) /\ ~IsString(u)
       THEN \* url.includes is not a function
            /\ vobs' = NothingSeen("none")
            /\ Raise("includes")
       ELSE /\ vobs' = NothingSeen(IF HasYouTubeBranch(h) /\ IsYouTube(u)
                                     THEN "GET" ELSE "HEAD")
            /\ vpc' = "awaitFetch"
            /\ vret' = "none"
  /\ UNCHANGED <<vn, pending, handlerVars, normVars>>

\* await fetch(...) resolves with the final response; clearTimeout
FetchResolves(st) ==
  /\ vpc = "awaitFetch"
  /\ IsString(vurl)
  /\ vobs' = [vobs EXCEPT !.net = "ok", !.status = st]
  /\ timer' = "cleared"
  /\ IF vobs.method = "GET"
       THEN IF ~IsOk(st)
              THEN Return(FALSE)
              ELSE /\ vpc' = "awaitBody"
                   /\ vret' = "none"
       ELSE Return(IsOk(st))
  /\ UNCHANGED <<vh, vurl, vn, pending, handlerVars, normVars>>

\* await fetch(...) rejects: network error, or a url fetch cannot parse
FetchRejects ==
  /\ vpc = "awaitFetch"
  /\ vobs' = [vobs EXCEPT !.net = "error"]
  /\ Raise("fetch")
  /\ UNCHANGED <<vh, vurl, timer, vn, pending, handlerVars, normVars>>

\* the 5 s pass: controller.abort(); a wait on the signal rejects
TimerFires ==
  /\ timer = "armed"
  /\ timer' = "fired"
  /\ IF AbortEnds(vpc)
       THEN /\ vobs' = IF vpc = "awaitFetch"
                         THEN [vobs EXCEPT !.net = "abort"]
                         ELSE [vobs EXCEPT !.read = "failed"]
            /\ Raise(IF vpc = "awaitFetch" THEN "fetch" ELSE "text")
       ELSE UNCHANGED <<vobs, vpc, vret>>
  /\ UNCHANGED <<vh, vurl, vn, pending, handlerVars, normVars>>

\* await response.text() resolves; the page is scanned
BodyArrives(pageText) ==
  /\ vpc = "awaitBody"
  /\ vobs' = [vobs EXCEPT !.read = "yes", !.page = pageText]
  /\ Return(~IsUnavailable(pageText))
  /\ UNCHANGED <<vh, vurl, timer, vn, pending, handlerVars, normVars>>

\* await response.text() rejects: the connection broke
BodyFails ==
  /\ vpc = "awaitBody"
  /\ vobs' = [vobs EXCEPT !.read = "failed"]
  /\ Raise("text")
  /\ UNCHANGED <<vh, vurl, timer, vn, pending, handlerVars, normVars>>

\* the loop goes on to the next candidate; a timer still armed stays
\* behind
LoopMovesOn ==
  /\ vpc = "returned"
  /\ vpc' = "idle"
  /\ vn' = vn + 1
  /\ pending' = pending + (IF timer = "armed" THEN 1 ELSE 0)
  /\ timer' = "unset"
  /\ UNCHANGED <<vh, vurl, vobs, vret, handlerVars, normVars>>

\* one controller shared by all the calls: the timer of a finished call
\* aborts the fetch of the call under way
StaleAbortEndsFetch(p) ==
  p = "awaitFetch"

\* const controller = new AbortController() is local to verifyUrl: the
\* timer of a finished call aborts that call's own signal and ends no
\* wait of the call under way
StaleAbortEnds(p) ==
  FALSE

\* the timer of a finished call fires: abort() of a settled fetch
StaleTimerFires ==
  /\ pending > 0
  /\ pending' = pending - 1
  /\ IF StaleAbortEnds(vpc)
       THEN /\ vobs' = [vobs EXCEPT !.net = "abort"]
            /\ Raise("fetch")
       ELSE UNCHANGED <<vobs, vpc, vret>>
  /\ UNCHANGED <<vh, vurl, timer, vn, handlerVars, normVars>>

VerifyInit ==
  /\ keys = {}
  /\ HandlerIdle
  /\ NormIdle
  /\ VerifyIdle

VerifyNext ==
  \/ \E h \in VerifyingHandlers, u \in VerifyUrls : VerifyStart(h, u)
  \/ \E st \in Statuses : FetchResolves(st)
  \/ FetchRejects
  \/ TimerFires
  \/ \E pageText \in PageTexts : BodyArrives(pageText)
  \/ BodyFails
  \/ LoopMovesOn
  \/ StaleTimerFires

VerifySpec ==
  VerifyInit /\ [][VerifyNext]_vars

\* the runtime runs a timer that is due; the network owes nothing
VerifyFairSpec ==
  VerifySpec /\ WF_vars(TimerFires)

(***************************************************************************)
(* The normalizers taken alone: each is given one provider text and        *)
(* returns the candidate list                                              *)
(***************************************************************************)
\* the three link functions of api/llm.js, the handler of
\* api/perplexity/links.js, the parse step of getRecommendations
LlmNormalizers ==
  {"perplexity", "openai", "gemini"}

Normalizers ==
  LlmNormalizers \cup {"links", "getRecommendations"}

NormInputs ==
  [who : Normalizers, text : RawTexts, maxResults : {1, 2, DefaultMaxResults}]

NormResult(threw, fallback, items) ==
  [done |-> TRUE, threw |-> threw, fallback |-> fallback, items |-> items]

\* perplexityLinks, openaiLinks, geminiLinks from `content` on
NormalizeLlm ==
  /\ nin.who \in LlmNormalizers
  /\ ~nout.done
  /\ LET r == Reply("ok", 200, TRUE, TRUE, nin.text)
     IN  nout' = NormResult(FALSE,
                            tryParseJson(ContentOrEmptyArray(r)).isNull,
                            LinksItems(nin.who, r, nin.maxResults))
  /\ UNCHANGED <<nin, handlerVars, verifyVars>>

\* /api/perplexity/links from `content` on
NormalizeLinks ==
  /\ nin.who = "links"
  /\ ~nout.done
  /\ nout' = NormResult(FALSE, LinksTakesFallback(nin.text),
                        IF LinksTakesFallback(nin.text)
                          THEN LinksFallback(nin.text, nin.maxResults)
                          ELSE LinksParsed(nin.text, nin.maxResults))
  /\ UNCHANGED <<nin, handlerVars, verifyVars>>

\* JSON.parse(jsonText) and parsedData.recommendations || []
NormalizeGetRecommendations ==
  /\ nin.who = "getRecommendations"
  /\ ~nout.done
  /\ LET j == JSONparse(nin.text)
     IN  nout' = IF ~j.ok \/ j.v.kind = "null"
                   THEN NormResult(TRUE, FALSE, <<>>)
                   ELSE NormResult(FALSE, FALSE, ParsedRecommendations(j.v))
  /\ UNCHANGED <<nin, handlerVars, verifyVars>>

NormInit ==
  /\ keys = {}
  /\ HandlerIdle
  /\ VerifyIdle
  /\ nin \in NormInputs
  /\ nout = [done |-> FALSE, threw |-> FALSE, fallback |-> FALSE,
             items |-> <<>>]

NormNext ==
  \/ NormalizeLlm
  \/ NormalizeLinks
  \/ NormalizeGetRecommendations

NormSpec ==
  NormInit /\ [][NormNext]_vars

Next ==
  \/ \E h \in VerifyingHandlers, m \in Methods, b \in VerifyingBodies :
       ReceiveVerifying(h, m, b)
  \/ \E r \in ProviderReplies : ProviderReplyVerifying(r)
  \/ \E m \in Methods, b \in ModelBodies : ReceiveMulti(m, b)
  \/ \E r \in PassthroughReplies : ProviderReplyMulti(r)
  \/ \E m \in Methods, b \in ModelBodies : ReceiveSimple(m, b)
  \/ \E r \in PassthroughReplies : ProviderReplySimple(r)
  \/ \E m \in Methods, b \in LlmBodies : ReceiveLlm(m, b)
  \/ \E r \in ProviderReplies : ProviderReplyLlm(r)
  \/ \E m \in Methods, b \in LinksBodies : ReceiveLinks(m, b)
  \/ \E r \in ProviderReplies : ProviderReplyLinks(r)
  \/ \E m \in Methods, b \in UnifiedBodies : ReceiveUnified(m, b)
  \/ \E r \in ProviderReplies : LlmReplyUnified("ok", r)
  \/ LlmReplyUnified("error", Reply("error", 0, FALSE, FALSE, <<>>))
  \/ \E o \in FetchOutcomes : VerifyReply(o)

Spec ==
  Init /\ [][Next]_vars


(***************************************************************************)
(* Properties                                                              *)
(***************************************************************************)
\* the calls made to an LLM provider
ProviderCalls ==
  SelectSeq(calls, LAMBDA c : c.to \in Providers)

\* the handlers that choose the provider from the request
RoutingHandlers ==
  {"multi", "simple", "unified"}

\* the handlers whose request carries a subject
SubjectHandlers ==
  VerifyingHandlers \cup RoutingHandlers

\* C1: for every request whose preferred format is video, the provider
\* invoked is Perplexity, whatever provider the client asked for.
C1_VideoForcesPerplexity ==
  (/\ handler \in RoutingHandlers
   /\ req.method = "POST"
   /\ req.body.learningFormat = "Video")
  => \A i \in DOMAIN ProviderCalls : ProviderCalls[i].to = "Perplexity"

\* C2: a request whose method is not POST is answered with status 405 and
\* the error "Method Not Allowed", and no outbound call is made for it.
C2_NonPostIs405 ==
  (handler # "none" /\ req.method # "POST")
  => /\ pc = "done"
     /\ res = <<ErrorResp(405, MsgMethod)>>
     /\ calls = <<>>

C2_Witness ==
  /\ handler = "unified"
  /\ req.method = "GET"
  /\ req.body.present
  /\ req.body.subject # Absent
  /\ Len(res) = 1

\* C3: a POST whose body is empty or has no subject is rejected with a
\* 400-class error naming the subject field, and no provider call is made
\* (stated for a server with every credential configured).
C3_MissingSubjectIs400 ==
  (/\ handler \in SubjectHandlers
   /\ keys = Providers
   /\ req.method = "POST"
   /\ (~req.body.present \/ req.body.subject = Absent))
  => /\ ProviderCalls = <<>>
     /\ pc # "crashed"
     /\ pc = "done" => res = <<ErrorResp(400, MsgSubject)>>

\* the recommendations a response carries: the list itself, or the list
\* inside the text of the envelope, read as the front end reads it
RecsOf(r) ==
  IF r.shape = "envelope"
    THEN IF JSONparse(r.text).ok
           THEN ParsedRecommendations(JSONparse(r.text).v) ELSE <<>>
    ELSE r.items

\* C4: in every 200 response each recommendation has a non-empty url, and
\* in the verifying handlers each one is a candidate whose verification
\* returned true.
C4_ReturnedUrlsNonEmptyAndVerified ==
  (handler \in VerifyingHandlers \cup {"unified"})
  => \A n \in DOMAIN res :
       res[n].status = 200
       => /\ \A k \in DOMAIN RecsOf(res[n]) : Truthy(RecsOf(res[n])[k].url)
          /\ handler \in VerifyingHandlers
             => \A k \in DOMAIN RecsOf(res[n]) :
                  \E e \in DOMAIN vlog :
                    /\ vlog[e].ok
                    /\ candidates[vlog[e].i] = RecsOf(res[n])[k]

\* the verifications that returned true, in the order they were made
OkLog ==
  SelectSeq(vlog, LAMBDA e : e.ok)

VerifyCalls ==
  SelectSeq(calls, LAMBDA c : c.to = "verify")

\* C5: the selection loop walks the candidates in order, accepts the first
\* desiredCount candidates that verify and keeps them in candidate order,
\* verifies every candidate with a url on the way and none after the one
\* that filled the accepted set, and verifies no candidate twice.
C5_FirstNInOrderNoBacktracking ==
  (handler \in VerifyingHandlers)
  => /\ \A a, b \in DOMAIN vlog : a < b => vlog[a].i < vlog[b].i
     /\ verified = [k \in DOMAIN OkLog |-> candidates[OkLog[k].i]]
     /\ Len(verified) <= desiredCount
     /\ Len(VerifyCalls) = Len(vlog) + (IF pc = "awaitVerify" THEN 1 ELSE 0)
     /\ pc = "awaitVerify"
        => /\ Len(verified) < desiredCount
           /\ \A a \in DOMAIN vlog : vlog[a].i < idx
           /\ \A k \in 1..(idx - 1) :
                Truthy(candidates[k].url)
                => \E a \in DOMAIN vlog : vlog[a].i = k
     /\ (pc = "done" /\ Len(verified) < desiredCount)
        => \A k \in DOMAIN candidates :
             Truthy(candidates[k].url) => \E a \in DOMAIN vlog : vlog[a].i = k
     /\ (pc = "done" /\ Len(verified) = desiredCount)
        => /\ vlog[Len(vlog)].ok
           /\ res = <<FinalResponse(verified)>>

\* two candidates verified, a later candidate with a url left unverified
C5_Witness ==
  /\ handler \in VerifyingHandlers
  /\ pc = "done"
  /\ Len(verified) = desiredCount
  /\ Len(vlog) = desiredCount
  /\ Len(candidates) > vlog[Len(vlog)].i
  /\ Truthy(candidates[Len(candidates)].url)

\* C6: when the candidate list is not empty and every verification
\* returned false, the handler answers 500 with the "none could be
\* verified" message and sends no recommendation.
C6_NoneVerifiedIs500 ==
  (/\ handler \in VerifyingHandlers
   /\ pc = "done"
   /\ candidates # <<>>
   /\ \A e \in DOMAIN vlog : ~vlog[e].ok)
  => /\ Len(res) = 1
     /\ res[1].status = 500
     /\ res[1].error \in {MsgNoneVerified, MsgNoneVerifiedSchema}
     /\ res[1].items = <<>>
     /\ res[1].text = <<>>

C6_Witness ==
  /\ handler \in VerifyingHandlers
  /\ pc = "done"
  /\ Len(candidates) >= 2
  /\ Len(vlog) = Len(candidates)
  /\ \A e \in DOMAIN vlog : ~vlog[e].ok
  /\ res = <<ErrorResp(500, MsgNoneVerified)>>

\* the provider the handler resolved for the request
Resolved ==
  Canon(activeModel)

\* C7: when the resolved provider has no credential configured the request
\* fails with a configuration error and no call to a provider is made.
C7_NoCallWithoutCredential ==
  /\ \A i \in DOMAIN ProviderCalls : ProviderCalls[i].to \in keys
  /\ (pc = "done" /\ Resolved \in Providers /\ Resolved \notin keys)
     => res[1].status = 500

\* C8: when the format is not video the router uses the client's explicit
\* provider choice; with no choice it resolves to a default provider and
\* the request goes on to the provider call.
C8_ExplicitChoiceOrDefault ==
  (/\ handler \in RoutingHandlers
   /\ req.method = "POST"
   /\ req.body.present
   /\ req.body.subject # Absent
   /\ req.body.learningFormat = "Text"
   /\ keys = Providers)
  => LET choice == IF handler = "unified"
                     THEN req.body.provider ELSE req.body.model
     IN  /\ Canon(choice) \in Providers => Resolved = Canon(choice)
         /\ choice = Absent => /\ Resolved \in Providers
                               /\ calls # <<>>

\* C9: every error raised while a POST is handled is caught inside the
\* handler and answered with a JSON error envelope; no exception escapes.
C9_NoExceptionEscapes ==
  /\ pc # "crashed"
  /\ pc = "done" => Len(res) = 1

\* C10: normalizing the provider's raw text never raises; text that is not
\* valid JSON does not make the request end in an error.
C10_MalformedTextNeverFails ==
  \A n \in DOMAIN res : res[n].error # MsgTextNotJson


(***************************************************************************)
(* Properties of the normalizers                                           *)
(***************************************************************************)
\* the provider text as a JSON document, code fences taken off
ParsedDoc(text) ==
  JSONparse(StripFences(Trim(text)))

\* the url and platform of each item
AsEntries(items) ==
  [i \in DOMAIN items |-> Entry(items[i].url, items[i].platform)]

UrlsOf(items) ==
  [i \in DOMAIN items |-> items[i].url]

\* C11: when the provider text parses to an object that has a
\* recommendations array, the candidate list is exactly that array, and
\* the URL-scanning fallback is taken only when parsing fails or yields no
\* array (texts on which the normalizer raises are left to C10).
C11_RecommendationsObjectIsUsed ==
  (nout.done /\ ~nout.threw)
  => LET j == ParsedDoc(nin.text)
     IN  /\ (j.ok /\ j.v.kind = "object" /\ j.v.hasRecs)
            => /\ ~nout.fallback
               /\ AsEntries(nout.items) = j.v.elems
         /\ nout.fallback
            => \/ ~j.ok
               \/ ~(j.v.kind = "array" \/ (j.v.kind = "object" /\ j.v.hasRecs))

\* C12: no candidate leaves the normalizer of /api/llm or of
\* /api/perplexity/links with a url that is missing, empty or not an
\* absolute http(s) URL, on the parsed path and on the fallback path.
C12_NoBadUrlLeavesNormalizer ==
  (nout.done /\ nin.who \in LlmNormalizers \cup {"links"})
  => \A i \in DOMAIN nout.items : IsAbsoluteHttp(nout.items[i].url)

\* the bare URLs of a text as they are written, in order of appearance
RECURSIVE WrittenUrls(_)
WrittenUrls(text) ==
  IF text = <<>> THEN <<>>
  ELSE (IF Head(text).t = "url" THEN <<Head(text).u>> ELSE <<>>)
       \o WrittenUrls(Tail(text))

NoJson(text) ==
  \A i \in DOMAIN text : text[i].t # "json"

\* C13: for a text with no JSON in it and k bare URLs, k within
\* maxResults, the fallback yields exactly k candidates, in order of
\* appearance, whose urls are the URLs as written, nothing attached.
C13_FallbackYieldsUrlsAsWritten ==
  (/\ nout.done
   /\ nin.who \in LlmNormalizers \cup {"links"}
   /\ NoJson(nin.text)
   /\ Len(WrittenUrls(nin.text)) <= nin.maxResults)
  => UrlsOf(nout.items) = WrittenUrls(nin.text)

\* the text is one JSON document of the form the normalizer's prompt asks
\* for: an array for /api/llm and /api/perplexity/links, an object with a
\* recommendations array for getRecommendations
WellFormed(who, text) ==
  /\ Len(text) = 1
  /\ text[1].t = "json"
  /\ IF who = "getRecommendations"
       THEN text[1].v.kind = "object" /\ text[1].v.hasRecs
       ELSE text[1].v.kind = "array"

HasUrl(e) ==
  Truthy(e.url)

\* C14: normalizing well-formed model output (no longer than maxResults)
\* yields the entries the model listed, in the model's order; entries
\* that lack a url are the only ones that may go.
C14_WellFormedOrderPreserved ==
  (/\ nout.done
   /\ WellFormed(nin.who, nin.text)
   /\ Len(nin.text[1].v.elems) <= nin.maxResults)
  => SelectSeq(AsEntries(nout.items), HasUrl)
       = SelectSeq(nin.text[1].v.elems, HasUrl)

(***************************************************************************)
(* Properties of verifyUrl                                                 *)
(***************************************************************************)
\* C15: verifyUrl never throws; after a network error, an abort on
\* timeout, a final status that is not 2xx or a failure while reading the
\* body it returns false, and it returns true only after a 2xx status.
C15_VerifyNeverThrows ==
  /\ vpc # "threw"
  /\ vpc = "returned" => vret \in {"true", "false"}
  /\ (/\ vpc = "returned"
      /\ \/ vobs.net \in {"none", "error", "abort"}
         \/ ~IsOk(vobs.status)
         \/ vobs.read = "failed")
     => vret = "false"
  /\ vret = "true" => (vobs.net = "ok" /\ IsOk(vobs.status))

\* the body of a YouTube page broke off after a 2xx status: false
C15_Witness ==
  /\ vpc = "returned"
  /\ IsOk(vobs.status)
  /\ vobs.read = "failed"
  /\ vret = "false"

AwaitingResponse ==
  vpc = "awaitFetch"

ResponseSeen ==
  vobs.net \in {"ok", "error"}

TimedOutFalse ==
  /\ vpc = "returned"
  /\ vret = "false"
  /\ vobs.net = "abort"
  /\ timer = "fired"

\* C16: a wait for the response always ends: when the response never
\* arrives the timer fires, the fetch is aborted and verifyUrl has returned
\* false, so the loop can go on to the next candidate.
C16_TimeoutEndsTheWait ==
  AwaitingResponse ~> (ResponseSeen \/ TimedOutFalse)

\* the second call of a loop timed out and returned false
C16_Witness ==
  /\ TimedOutFalse
  /\ vn = 1
  /\ ENABLED LoopMovesOn

\* C17: on the YouTube path the timeout is still armed while the body is
\* being downloaded (so that a body that never finishes is aborted).
C17_TimeoutCoversBodyDownload ==
  vpc = "awaitBody" => timer = "armed"

\* C18: whenever verifyUrl has returned (the url being a string: true,
\* false after a status that is not 2xx, false after a caught fetch
\* error), its timer has been disarmed, and no timer of a finished
\* verification is still pending.
C18_TimerDisarmedOnReturn ==
  /\ (vpc = "returned" /\ IsString(vurl)) => timer # "armed"
  /\ pending = 0

\* the phrases as the claim spells them, and as the pages of the site
\* capitalise them
ClaimedPhrases ==
  {"video unavailable", "this video is private", "this video is unlisted",
   "this video has been removed"}
  \cup MarkerPhrases

\* the response arrived and, after a 2xx status on the YouTube path, so
\* did its body
Answered ==
  /\ vobs.net = "ok"
  /\ (vobs.method = "GET" /\ IsOk(vobs.status)) => vobs.read = "yes"

\* C19 as written: for a YouTube url verifyUrl returns true exactly when
\* the final status is 2xx and the body contains none of 'video
\* unavailable', 'this video is private', 'this video is unlisted', 'this
\* video has been removed' (in this or in the site's capitalisation); for
\* any other url the 2xx status of a HEAD request decides alone.
C19_MarkersAsWritten ==
  (HasYouTubeBranch(vh) /\ vpc = "returned" /\ Answered)
  => IF IsYouTube(vurl)
       THEN vret = "true"
            <=> (IsOk(vobs.status) /\ vobs.page \cap ClaimedPhrases = {})
       ELSE /\ vobs.method = "HEAD"
            /\ vret = "true" <=> IsOk(vobs.status)

\* C19 amended: for a YouTube url verifyUrl returns true exactly when the
\* final status is 2xx and the body was read and contains none of 'Video
\* unavailable', 'This video is private', 'This video is unlisted', 'This
\* video has been removed', spelled and capitalised so; for any other
\* url the 2xx status of a HEAD request decides alone.
C19_MarkersCaseSensitive ==
  (HasYouTubeBranch(vh) /\ vpc = "returned" /\ IsString(vurl))
  => IF IsYouTube(vurl)
       THEN /\ vobs.method = "GET"
            /\ vret = "true"
               <=> /\ vobs.net = "ok"
                   /\ IsOk(vobs.status)
                   /\ vobs.read = "yes"
                   /\ vobs.page \cap MarkerPhrases = {}
       ELSE /\ vobs.method = "HEAD"
            /\ vobs.read = "no"
            /\ vret = "true" <=> (vobs.net = "ok" /\ IsOk(vobs.status))

\* a YouTube page answered 200 and says the video is private: false
C19_Witness ==
  /\ HasYouTubeBranch(vh)
  /\ vpc = "returned"
  /\ IsYouTube(vurl)
  /\ vobs.status = 200
  /\ vobs.page = {"This video is private"}
  /\ vret = "false"

(***************************************************************************)
(* Properties of the outbound calls                                        *)
(***************************************************************************)
\* the POST passed the handler's validation (where it has one) and the
\* credential of the provider it resolved is configured
Admitted ==
  /\ req.method = "POST"
  /\ req.body.present
  /\ handler \in SubjectHandlers => req.body.subject # Absent
  /\ CASE handler \in VerifyingHandlers -> KeyOfHandler(handler) \in keys
       [] handler = "multi" ->
            ActiveModel(req.body.model, req.body.learningFormat) \in keys
       [] handler = "simple" -> Dispatch(req.body.model) \in keys
       [] handler = "llm" ->
            /\ req.body.query # Absent
            /\ OrDefault(req.body.task, "links") \in {"links", "summary"}
            /\ Canon(OrDefault(req.body.provider, "perplexity")) \in keys
       [] handler = "links" ->
            /\ req.body.query # Absent
            /\ "Perplexity" \in keys
       [] handler = "unified" -> TRUE
       [] OTHER -> FALSE

\* the calls the handler itself makes for the answer: to the provider, or
\* to /api/llm in the unified handler
OutboundCalls ==
  IF handler = "unified"
    THEN SelectSeq(calls, LAMBDA c : c.to = "llm")
    ELSE ProviderCalls

\* C20: a POST that passes validation and the credential check makes
\* exactly one outbound call for the answer: one is under way or made as
\* soon as the handler is past its checks, and never a second one.
C20_ExactlyOneProviderCall ==
  Admitted => Len(OutboundCalls) = 1

(***************************************************************************)
(* Properties of the error outcomes                                        *)
(***************************************************************************)
\* the handlers that call the provider themselves
ProviderHandlers ==
  VerifyingHandlers \cup {"multi", "simple", "llm", "links"}

\* the request is answered
Answered1 ==
  pc = "done" /\ Len(res) = 1

\* every provider call went out with the provider's credential
Keyed ==
  \A i \in DOMAIN ProviderCalls : ProviderCalls[i].key

\* the provider answered with a status outside 200..299
ProviderUnsuccessful ==
  /\ handler \in ProviderHandlers
  /\ Keyed
  /\ apiResponse.net = "ok"
  /\ ~IsOk(apiResponse.status)

\* the provider answered 2xx with a JSON envelope that holds no content
ProviderEmpty ==
  /\ handler \in ProviderHandlers
  /\ Keyed
  /\ apiResponse.net = "ok"
  /\ IsOk(apiResponse.status)
  /\ apiResponse.json
  /\ ~apiResponse.content

\* the provider call failed: it was rejected, or answered non-2xx
ProviderCallFailed ==
  /\ handler \in ProviderHandlers
  /\ apiResponse.net = "error" \/ ProviderUnsuccessful

\* C21: whenever the provider's HTTP response is not successful the
\* request ends in an error response; it never ends in a 200.
C21_UnsuccessfulProviderNever200 ==
  (Answered1 /\ ProviderUnsuccessful) =>
    (res[1].status >= 400 /\ res[1].shape = "error")

\* C22: whenever the provider answers successfully but its envelope holds
\* no extractable content, whichever provider it is, the request ends in
\* an error response and not in a 200.
C22_EmptyEnvelopeNever200 ==
  (Answered1 /\ ProviderEmpty) =>
    (res[1].status >= 400 /\ res[1].shape = "error")

\* C23: a failed provider call is reported with status 502 or 500 only,
\* never with the provider's own status, in /api/perplexity/links and in
\* the multi-provider proxy.
C23_FailedCallIs502Or500 ==
  (Answered1 /\ ProviderCallFailed /\ handler \in {"links", "multi"}) =>
    res[1].status \in {500, 502}

(***************************************************************************)
(* Properties of the resolved provider                                     *)
(***************************************************************************)
\* C24: in the multi-provider handlers the provider resolved at routing
\* (the one whose credential was checked) is the provider that is called,
\* and the content is read from the envelope shape of that provider.
C24_OneProviderThroughout ==
  (handler \in {"multi", "simple"} /\ ProviderCalls # <<>>) =>
    /\ ProviderCalls[1].to = activeModel
    /\ apiResponse.readAs # "none" =>
         apiResponse.readAs = EnvelopeRead(activeModel)

(***************************************************************************)
(* Properties of the order of the steps and of the response                *)
(***************************************************************************)
\* the step a handler position belongs to: validation and routing, the
\* provider call and its normalization, the selection, the outcome
Rank(p) ==
  CASE p = "idle" -> 0
    [] p \in {"awaitProvider", "awaitLlm"} -> 1
    [] p = "awaitVerify" -> 2
    [] OTHER -> 3

\* C25: a request moves through validate, route, call provider, normalize,
\* select, respond in that order and revisits none: no step runs once the
\* outcome is reached, the provider is not called again and the candidate
\* list is not rebuilt during selection, and a response, error or success,
\* is written only on reaching the outcome, so nothing follows a failure.
C25_StepsInOrderFailureFinal ==
  [][/\ pc \notin {"done", "crashed"}
     /\ Rank(pc') >= Rank(pc)
     /\ pc = "awaitVerify" =>
          /\ ProviderCalls' = ProviderCalls
          /\ candidates' = candidates
     /\ res' # res => (res = <<>> /\ Len(res') = 1 /\ pc' = "done")
     /\ pc' = "done" => Len(res') = 1]_vars

\* the Gemini verifying handler failed at the selection step, after the
\* provider call, the normalization and a verification
C25_Witness ==
  /\ handler = "geminiVerify"
  /\ pc = "done"
  /\ Len(ProviderCalls) = 1
  /\ candidates # <<>>
  /\ Len(VerifyCalls) >= 1
  /\ Len(res) = 1
  /\ res[1].status = 500
  /\ res[1].error = MsgNoneVerified

\* C28: on every path through a link-verifying handler exactly one
\* response is written to res: none while the handler is still at work,
\* one when it has returned, never a second.
C28_ExactlyOneResponse ==
  handler \in VerifyingHandlers =>
    /\ pc \in {"awaitProvider", "awaitVerify", "done"}
    /\ pc = "done" => Len(res) = 1
    /\ pc # "done" => res = <<>>

\* the Perplexity verifying handler answered 200 after a verification
C28_Witness ==
  /\ handler = "pplxVerify"
  /\ pc = "done"
  /\ Len(vlog) >= 1
  /\ Len(res) = 1
  /\ res[1].status = 200

(***************************************************************************)
(* Properties of the sequence of verifications                             *)
(***************************************************************************)
\* a verifyUrl call has its fetch, or the read of its body, under way
InFlight(p) ==
  p \in {"awaitFetch", "awaitBody"}

\* C26: the verifications of one request run one after another, each with
\* its own timer: a verification starts only when none is under way, the
\* next one only after the one before has returned, each start arms a
\* fresh timer that stays armed while the fetch is awaited, and a fetch is
\* aborted by the timer of its own call only, never by the timer left
\* behind by an earlier call.
C26_OneVerificationAtATime ==
  /\ [](vpc = "awaitFetch" => timer = "armed")
  /\ []((vpc = "returned" /\ vobs.net = "abort") => timer = "fired")
  /\ [][/\ (InFlight(vpc') /\ ~InFlight(vpc)) =>
            (vpc = "idle" /\ timer' = "armed" /\ vret' = "none")
        /\ (vpc' = "idle" /\ vpc # "idle") =>
            (vpc = "returned" /\ vret # "none" /\ vn' = vn + 1)
        /\ vn' # vn => (vpc = "returned" /\ vn' = vn + 1)]_vars

\* the second verification is under way, with its own timer armed, while
\* the timer of the first one is still pending
C26_Witness ==
  /\ vn >= 1
  /\ pending >= 1
  /\ vpc = "awaitFetch"
  /\ timer = "armed"

(***************************************************************************)
(* Properties of the provider call's time limit                            *)
(***************************************************************************)
\* C27: the call to the LLM provider (or to /api/llm) is bounded by a
\* timeout: every such call under way carries an abort signal armed by a
\* timer, so that a provider that never answers is given up on and the
\* client receives an error response.
C27_ProviderCallHasTimeout ==
  \A i \in DOMAIN calls :
    calls[i].to \in Providers \cup {"llm"} => calls[i].signal

(***************************************************************************)
(* Properties of the size and content of the answers                       *)
(***************************************************************************)
\* C29: for the links task of /api/llm the items list of the response has
\* at most maxResults entries, for every provider, on the parsed-JSON
\* path and on the URL-fallback path.
C29_AtMostMaxResultsItems ==
  (handler = "llm" /\ Answered1 /\ res[1].shape = "items") =>
    Len(res[1].items) <=
      NumOrDefault(req.body.maxResults, DefaultMaxResults)

\* C30: for an item list of length n from /api/llm the unified handler
\* answers 200 with exactly min(2, n) recommendations, the first items of
\* the list in their order, each with its item's url (an empty list when
\* n = 0); when /api/llm answers with a non-success status it answers 500.
C30_FirstTwoItemsOrError ==
  (handler = "unified" /\ Answered1 /\ apiResponse.net = "ok") =>
    IF IsOk(apiResponse.status)
      THEN LET n == Len(apiResponse.items)
               recs == res[1].items
           IN  /\ res[1].status = 200
               /\ res[1].shape = "recommendations"
               /\ Len(recs) = IF n < 2 THEN n ELSE 2
               /\ \A i \in DOMAIN recs :
                    recs[i].url = apiResponse.items[i].url
      ELSE /\ res[1].status = 500
           /\ res[1].shape = "error"

\* /api/llm returned three items with different urls at both ends and the
\* unified handler answered with two recommendations
C30_Witness ==
  /\ handler = "unified"
  /\ pc = "done"
  /\ apiResponse.net = "ok"
  /\ Len(apiResponse.items) = 3
  /\ apiResponse.items[1].url # apiResponse.items[3].url
  /\ Len(res) = 1
  /\ Len(res[1].items) = 2

====
